---- MODULE Spec2Model ----
(***************************************************************************)
(* Model of the Prometheus Provider integration                            *)
(* (custom_components/prometheus_provider): the per-target poll cycle of   *)
(* PrometheusDataUpdateCoordinator, the YAML and config-entry set-up       *)
(* paths, and the sensor platform that publishes one entity per series.    *)
(*                                                                         *)
(* Strings the code inspects character by character (metric names, label   *)
(* names and values, derived keys) are sequences of one-character strings, *)
(* so that startswith, sorted() and the f-string joins are computed.       *)
(***************************************************************************)
EXTENDS Integers, Sequences, FiniteSets, TLC

\* ------------------------------------------------------------------------
\* Bounds of the model
\* ------------------------------------------------------------------------
\* number of coordinator objects that may be constructed in one run
MaxCoords == 3
\* number of YAML targets in one configuration
MaxTargets == 2
\* number of labels (besides __name__) of a sample in the keyer exploration
MaxLabels == 2
\* length of a result list in the filter exploration
MaxSamples == 2

\* ------------------------------------------------------------------------
\* Program constants
\* ------------------------------------------------------------------------
DEFAULT_SCRAPE_INTERVAL == 60

\* ------------------------------------------------------------------------
\* Python strings
\* ------------------------------------------------------------------------
\* code-point order of the characters the model uses (ASCII order)
Alphabet ==
    <<"-", ".", "0", "1", "_", "a", "b", "c", "d", "e", "f", "g", "h", "i", "j", "k", "l", "m", "n",
      "o", "p", "q", "r", "s", "t", "u", "v", "w", "x", "y", "z">>

CharOrd(ch) == CHOOSE i \in 1..Len(Alphabet) : Alphabet[i] = ch

\* str.__lt__ : lexicographic comparison by code point
RECURSIVE StrLess(_, _)
StrLess(a, b) ==
    IF b = <<>> THEN FALSE
    ELSE IF a = <<>> THEN TRUE
    ELSE IF Head(a) = Head(b) THEN StrLess(Tail(a), Tail(b))
    ELSE CharOrd(Head(a)) < CharOrd(Head(b))

\* str.startswith
StartsWith(s, p) == Len(p) <= Len(s) /\ SubSeq(s, 1, Len(p)) = p

\* the reserved label "__name__"
NameLabel == <<"_", "_", "n", "a", "m", "e", "_", "_">>

Underscore == <<"_">>

\* tuple comparison of two (label, value) items, as sorted() compares them
ItemLess(x, y) == StrLess(x[1], y[1]) \/ (x[1] = y[1] /\ StrLess(x[2], y[2]))

\* insertion of one item into an already sorted list, after its equals (stable)
RECURSIVE InsertSorted(_, _)
InsertSorted(x, s) ==
    IF s = <<>> THEN <<x>>
    ELSE IF ItemLess(x, Head(s)) THEN <<x>> \o s
    ELSE <<Head(s)>> \o InsertSorted(x, Tail(s))

\* sorted(metric_labels.items()) that forgets to sort (a plausible slip)
SortedItemsUnsorted(items) == items

\* sorted(metric_labels.items())
RECURSIVE SortedItems(_)
SortedItems(items) ==
    IF items = <<>> THEN <<>>
    ELSE InsertSorted(items[Len(items)], SortedItems(SubSeq(items, 1, Len(items) - 1)))

\* "_".join(parts)
RECURSIVE JoinUnderscore(_)
JoinUnderscore(parts) ==
    IF parts = <<>> THEN <<>>
    ELSE IF Len(parts) = 1 THEN parts[1]
    ELSE parts[1] \o Underscore \o JoinUnderscore(Tail(parts))

\* label parts rendered value first
RECURSIVE LabelPartsValueFirst(_)
LabelPartsValueFirst(items) ==
    IF items = <<>> THEN <<>>
    ELSE IF Head(items)[1] = NameLabel THEN LabelPartsValueFirst(Tail(items))
    ELSE <<Head(items)[2] \o Underscore \o Head(items)[1]>> \o LabelPartsValueFirst(Tail(items))

\* [f"{k}_{v}" for k, v in items if k != "__name__"]
RECURSIVE LabelParts(_)
LabelParts(items) ==
    IF items = <<>> THEN <<>>
    ELSE IF Head(items)[1] = NameLabel THEN LabelParts(Tail(items))
    ELSE <<Head(items)[1] \o Underscore \o Head(items)[2]>> \o LabelParts(Tail(items))

\* labels_key_part of one sample
labels_key_part(metric_labels) == JoinUnderscore(LabelParts(SortedItems(metric_labels)))

\* metric_key of one sample
metric_key(metric_name, metric_labels) ==
    LET part == labels_key_part(metric_labels)
    IN  IF part # <<>> THEN metric_name \o Underscore \o part ELSE metric_name

\* dict.get("__name__") on the label mapping: a pair <<found, value>>
RECURSIVE GetName(_)
GetName(items) ==
    IF items = <<>> THEN <<FALSE, <<>>>>
    ELSE IF Head(items)[1] = NameLabel THEN <<TRUE, Head(items)[2]>>
    ELSE GetName(Tail(items))

\* {k: v for k, v in metric_labels.items() if k != "__name__"}
RECURSIVE StripName(_)
StripName(items) ==
    IF items = <<>> THEN <<>>
    ELSE IF Head(items)[1] = NameLabel THEN StripName(Tail(items))
    ELSE <<Head(items)>> \o StripName(Tail(items))

\* ------------------------------------------------------------------------
\* Optional values: <<>> is "key absent" (dict.get gives None), <<v>> is v
\* ------------------------------------------------------------------------
None == <<>>
Some(v) == <<v>>
IsSet(o) == o # <<>>
Get(o, default) == IF o = <<>> THEN default ELSE o[1]

\* the elements of a Python list
Elems(list) == {list[i] : i \in 1..Len(list)}

\* ------------------------------------------------------------------------
\* Raw samples: one element of the API's result list.
\*   malformed : the element's "metric" field is no mapping (JSON null)
\*   metric    : the label mapping in transmission order, <<label, value>> items
\*   kind      : the JSON type of the "value" field: "list", "string",
\*               "number" or "object"
\*   value     : the "value" field: a list as its elements (<<>> when the
\*               field is absent), a string as its characters, a number n as
\*               <<n>>, an object as the values of its members
\* ------------------------------------------------------------------------
RawSampleOf(items, kind, value) ==
    [malformed |-> FALSE, metric |-> items, kind |-> kind, value |-> value]
RawSample(items, value) == RawSampleOf(items, "list", value)
MalformedSample == [malformed |-> TRUE, metric |-> <<>>, kind |-> "list", value |-> <<>>]

\* the filter part of a target configuration
FilterConfig(prefix, include, exclude) ==
    [metrics_prefix |-> prefix, included_metrics |-> include, excluded_metrics |-> exclude]

\* `if metrics_prefix and not metric_name.startswith(metrics_prefix)`
PrefixRejects(cfg, metric_name) ==
    /\ IsSet(cfg.metrics_prefix)
    /\ cfg.metrics_prefix[1] # <<>>
    /\ ~StartsWith(metric_name, cfg.metrics_prefix[1])

\* the include test with the emptiness guard dropped
IncludeRejectsEmptyList(cfg, metric_name) ==
    /\ IsSet(cfg.included_metrics)
    /\ metric_name \notin Elems(cfg.included_metrics[1])

\* `if included_metrics and metric_name not in included_metrics`
IncludeRejects(cfg, metric_name) ==
    /\ IsSet(cfg.included_metrics)
    /\ cfg.included_metrics[1] # <<>>
    /\ metric_name \notin Elems(cfg.included_metrics[1])

\* `if metric_name in excluded_metrics`, excluded_metrics defaulting to []
ExcludeRejects(cfg, metric_name) ==
    metric_name \in Elems(Get(cfg.excluded_metrics, <<>>))

\* the chain of `continue` tests one item goes through before it is keyed
Retained(item, cfg) ==
    LET nm == GetName(item.metric)
    IN  IF ~nm[1] \/ nm[2] = <<>> THEN FALSE
        ELSE IF PrefixRejects(cfg, nm[2]) THEN FALSE
        ELSE IF IncludeRejects(cfg, nm[2]) THEN FALSE
        ELSE IF ExcludeRejects(cfg, nm[2]) THEN FALSE
        ELSE TRUE

\* the retained items of a result list, in order
RECURSIVE RetainedList(_, _)
RetainedList(raw, cfg) ==
    IF raw = <<>> THEN <<>>
    ELSE IF ~Head(raw).malformed /\ Retained(Head(raw), cfg)
         THEN <<Head(raw)>> \o RetainedList(Tail(raw), cfg)
         ELSE RetainedList(Tail(raw), cfg)

EmptyMap == [k \in {} |-> 0]

\* an assignment that keeps the entry a key already has
PutKeepsFirst(m, k, v) ==
    [q \in (DOMAIN m) \cup {k} |-> IF q \in DOMAIN m THEN m[q] ELSE v]

\* processed_metrics[metric_key] = {...}
Put(m, k, v) == [q \in (DOMAIN m) \cup {k} |-> IF q = k THEN v ELSE m[q]]

\* the entry stored for one item
Entry(item) ==
    [name      |-> GetName(item.metric)[2],
     labels    |-> StripName(item.metric),
     value     |-> item.value[2],
     timestamp |-> item.value[1]]

\* `if value_pair and len(value_pair) == 2` and the subscripts that follow it
\* raise: len() of a number other than 0 is a TypeError (0 is falsy and never
\* gets there), value_pair[1] on an object of two members is a KeyError
ValueRaises(item) ==
    \/ item.kind = "number" /\ item.value # <<0>>
    \/ item.kind = "object" /\ Len(item.value) = 2

\* `if value_pair and len(value_pair) == 2`, where it does not raise
HasValuePair(item) == Len(item.value) = 2

\* the body of `for item in raw_metrics`, from the accumulated map:
\* [raised, map]; an item whose "metric" is no mapping raises AttributeError,
\* a retained item whose "value" cannot be measured or subscripted raises too
RECURSIVE ProcessLoop(_, _, _)
ProcessLoop(raw, cfg, acc) ==
    IF raw = <<>> THEN [raised |-> FALSE, map |-> acc]
    ELSE LET item == Head(raw)
         IN  IF item.malformed THEN [raised |-> TRUE, map |-> EmptyMap]
             ELSE IF ~Retained(item, cfg) THEN ProcessLoop(Tail(raw), cfg, acc)
             ELSE IF ValueRaises(item) THEN [raised |-> TRUE, map |-> EmptyMap]
             ELSE IF HasValuePair(item)
                  THEN ProcessLoop(Tail(raw), cfg,
                           Put(acc, metric_key(GetName(item.metric)[2], item.metric), Entry(item)))
                  ELSE ProcessLoop(Tail(raw), cfg, acc)

\* a loop that raises on an empty result list
ProcessMetricsEmptyRaises(raw, cfg) ==
    IF raw = <<>> THEN [raised |-> TRUE, map |-> EmptyMap]
    ELSE ProcessLoop(raw, cfg, EmptyMap)

\* processed_metrics after the loop over metrics_raw
ProcessMetrics(raw, cfg) == ProcessLoop(raw, cfg, EmptyMap)

\* ------------------------------------------------------------------------
\* The HTTP exchange of one fetch, as the network decides it
\*   kind   : "client_error" (session.get raises), "http_status"
\*            (raise_for_status raises), "timeout", "payload" (a JSON body)
\*   status : the body's "status" field
\*   result : the body's data.result list
\* ------------------------------------------------------------------------
Exchange(kind, status, result) == [kind |-> kind, status |-> status, result |-> result]

\* async_get_prometheus_metrics: [raised, result]; raised means UpdateFailed
async_get_prometheus_metrics(ex) ==
    IF ex.kind = "payload"
    THEN IF ex.status = "success"
         THEN [raised |-> FALSE, result |-> ex.result]
         ELSE [raised |-> FALSE, result |-> <<>>]
    ELSE [raised |-> TRUE, result |-> <<>>]

\* the try block of _async_update_data: fetch, then filter and key.
\* [raised, map]; raised means the method raised UpdateFailed
UpdateData(ex, cfg) ==
    LET fetched == async_get_prometheus_metrics(ex)
    IN  IF fetched.raised THEN [raised |-> TRUE, map |-> EmptyMap]
        ELSE ProcessMetrics(fetched.result, cfg)

\* ------------------------------------------------------------------------
\* Target configurations
\* ------------------------------------------------------------------------
\* one target mapping: every key optional, as in a dict
Target(name, job, label, value, interval, filter) ==
    [target_name      |-> name,
     job_name         |-> job,
     instance_label   |-> label,
     instance_value   |-> value,
     device_id        |-> Some("dev"),
     device_name      |-> Some("Device"),
     scrape_interval  |-> interval,
     metrics_prefix   |-> filter.metrics_prefix,
     included_metrics |-> filter.included_metrics,
     excluded_metrics |-> filter.excluded_metrics]

NoFilter == FilterConfig(None, None, None)

\* TARGET_SCHEMA accepts a mapping that holds every vol.Required key and no key
\* the schema does not list (voluptuous rejects extra keys by default); the
\* schema lists no instance-label key
TargetSchemaAccepts(raw) ==
    /\ IsSet(raw.target_name)
    /\ IsSet(raw.job_name)
    /\ IsSet(raw.instance_value)
    /\ IsSet(raw.device_id)
    /\ IsSet(raw.device_name)
    /\ ~IsSet(raw.instance_label)

\* TARGET_SCHEMA(raw): the validated mapping, defaults filled in
TARGET_SCHEMA(raw) ==
    [raw EXCEPT !.scrape_interval =
        IF IsSet(@) THEN @ ELSE Some(DEFAULT_SCRAPE_INTERVAL)]

\* the integration's YAML section: present says DOMAIN is a key of the config
YamlConfig(present, interval, targets) ==
    [present |-> present, scrape_interval |-> interval, targets |-> targets]

\* a list schema that validates its first element only
ConfigSchemaAcceptsFirstOnly(cfg) ==
    IF cfg.targets = <<>> THEN TRUE ELSE TargetSchemaAccepts(cfg.targets[1])

\* CONFIG_SCHEMA accepts the section iff every element of targets validates
ConfigSchemaAccepts(cfg) ==
    \A i \in 1..Len(cfg.targets) : TargetSchemaAccepts(cfg.targets[i])

\* CONFIG_SCHEMA(cfg): the validated section
CONFIG_SCHEMA(cfg) ==
    [present         |-> cfg.present,
     scrape_interval |-> IF IsSet(cfg.scrape_interval) THEN cfg.scrape_interval
                         ELSE Some(DEFAULT_SCRAPE_INTERVAL),
     targets         |-> [i \in 1..Len(cfg.targets) |-> TARGET_SCHEMA(cfg.targets[i])]]

\* async_setup: scrape_interval of one target
YamlScrapeInterval(target_config, global_scrape_interval) ==
    Get(target_config.scrape_interval, global_scrape_interval)

\* async_setup_entry: scrape_interval of the entry's target
EntryScrapeInterval(options, target_config) ==
    Get(options, Get(target_config.scrape_interval, DEFAULT_SCRAPE_INTERVAL))

\* the three subscript reads that open _async_update_data, outside its try
\* block: a missing key raises KeyError
ConfigReadRaises(target_config) ==
    \/ ~IsSet(target_config.job_name)
    \/ ~IsSet(target_config.instance_label)
    \/ ~IsSet(target_config.instance_value)

FilterOf(target_config) ==
    FilterConfig(target_config.metrics_prefix, target_config.included_metrics,
                 target_config.excluded_metrics)

\* ------------------------------------------------------------------------
\* Inputs of the exploration
\* ------------------------------------------------------------------------
sUp == <<"u", "p">>
sNA == <<"n", "_", "a">>
sNPrefix == <<"n", "_">>
sC == <<"c">>
s0 == <<"0">>

SampleUp(v) == RawSample(<< <<NameLabel, sUp>> >>, <<1700, v>>)
SampleNA(v) == RawSample(<< <<NameLabel, sNA>>, <<sC, s0>> >>, <<1700, v>>)
SampleUpNoValue == RawSample(<< <<NameLabel, sUp>> >>, <<>>)

\* result lists the API may answer with
Results ==
    { <<>>,
      <<SampleUp("1")>>,
      <<SampleUp("2"), SampleNA("1")>>,
      <<SampleUpNoValue, SampleNA("1")>>,
      <<SampleNA("1"), MalformedSample>> }

Exchanges ==
    { Exchange("timeout", "", <<>>),
      Exchange("client_error", "", <<>>),
      Exchange("http_status", "", <<>>),
      Exchange("payload", "error", <<>>) }
    \cup { Exchange("payload", "success", r) : r \in Results }

\* YAML target mappings as written by the user: two that carry every required
\* key, one without job_name, one with an instance-label key
YamlTargetChoices ==
    { Target(Some("a"), Some("job"), None, Some("host"), None, NoFilter),
      Target(Some("b"), Some("job"), None, Some("host"), Some(10), NoFilter),
      Target(Some("a"), None, None, Some("host"), None, NoFilter),
      Target(Some("b"), Some("job"), Some("instance"), Some("host"), None, NoFilter) }

RECURSIVE SeqsUpTo(_, _)
SeqsUpTo(S, n) ==
    IF n = 0 THEN {<<>>}
    ELSE LET shorter == SeqsUpTo(S, n - 1)
         IN  shorter \cup {Append(q, e) : q \in {r \in shorter : Len(r) = n - 1}, e \in S}

YamlConfigs ==
    {YamlConfig(FALSE, None, <<>>)}
    \cup {YamlConfig(TRUE, g, ts) : g \in {None, Some(30)},
                                    ts \in SeqsUpTo(YamlTargetChoices, MaxTargets)}

\* entry.data (never validated by a schema) and
\* entry.options.get(CONF_SCRAPE_INTERVAL) of the config entry
EntryChoices ==
    { [data    |-> Target(Some("e"), Some("job"), Some("instance"), Some("host"), None,
                          NoFilter),
       options |-> None],
      [data    |-> Target(Some("e"), Some("job"), Some("instance"), Some("host"), Some(10),
                          FilterConfig(Some(sNPrefix), None, None)),
       options |-> None],
      [data    |-> Target(Some("e"), Some("job"), Some("instance"), Some("host"), Some(10),
                          NoFilter),
       options |-> Some(20)],
      [data    |-> Target(Some("e"), Some("job"), None, Some("host"), None, NoFilter),
       options |-> None] }

\* the entry's entry_id, its key in the registry
EntryId == "entry1"

\* ------------------------------------------------------------------------
\* State
\* ------------------------------------------------------------------------
VARIABLES
    yaml,      \* the YAML section as loaded: [state, raw, config]
    registry,  \* hass.data[DOMAIN][DATA_COORDINATORS]: the dict's entry array
    coord,     \* the coordinator objects, by identity
    made,      \* number of coordinator objects constructed so far
    sensors,   \* the PrometheusSensor objects
    platform,  \* where async_setup_platform stands
    entry,     \* the config entry: [state, coordinator, data, options, had_failure,
               \* via_reload]
    probe      \* input and output of the function-level explorations

vars == <<yaml, registry, coord, made, sensors, platform, entry, probe>>

CoordIds == 1..MaxCoords

\* ------------------------------------------------------------------------
\* The registry dict: insertion-ordered entries; a popped entry leaves a
\* dead slot behind, as in CPython's entry array
\* ------------------------------------------------------------------------
LiveIdx(reg) == {i \in 1..Len(reg) : reg[i].live}
DictLen(reg) == Cardinality(LiveIdx(reg))
DictHas(reg, key) == \E i \in LiveIdx(reg) : reg[i].key = key
DictGet(reg, key) == reg[CHOOSE i \in LiveIdx(reg) : reg[i].key = key].coordinator

\* d[key] = c
DictSet(reg, key, c) ==
    IF DictHas(reg, key)
    THEN [i \in 1..Len(reg) |->
            IF reg[i].live /\ reg[i].key = key THEN [reg[i] EXCEPT !.coordinator = c]
            ELSE reg[i]]
    ELSE Append(reg, [key |-> key, coordinator |-> c, live |-> TRUE])

\* d.pop(key)
DictPop(reg, key) ==
    [i \in 1..Len(reg) |->
        IF reg[i].live /\ reg[i].key = key THEN [reg[i] EXCEPT !.live = FALSE]
        ELSE reg[i]]

\* ------------------------------------------------------------------------
\* Coordinator objects
\* ------------------------------------------------------------------------
Blank == Target(None, None, None, None, None, NoFilter)

\* a slot no object occupies yet
NoCoordinator ==
    [exists |-> FALSE, target_config |-> Blank, update_interval |-> 0,
     has_data |-> FALSE, data |-> EmptyMap, last_update_success |-> TRUE,
     polling |-> FALSE, timer |-> FALSE,
     outcome |-> "none", ever_ok |-> FALSE, ever_failed |-> FALSE,
     last_good |-> EmptyMap, last_raw |-> <<>>, platform_saw |-> "none"]

\* PrometheusDataUpdateCoordinator(...): data is None, last_update_success True,
\* no refresh scheduled.  The remaining fields are history: outcome is the way
\* the last finished cycle ended, ever_ok and ever_failed whether some cycle
\* succeeded or failed, last_good the map the last successful cycle returned,
\* last_raw the result list it was built from, platform_saw what
\* async_setup_platform found after the first refresh it awaited
NewCoordinator(target_config, scrape_interval) ==
    [NoCoordinator EXCEPT !.exists = TRUE,
                          !.target_config = target_config,
                          !.update_interval = scrape_interval]

\* the entities subscribed to coordinator c
Listeners(ss, c) == {s \in ss : s.coordinator = c /\ s.added}

\* a failed refresh that also drops the data
RefreshFailedDropsData(co, listening) ==
    [co EXCEPT !.last_update_success = FALSE, !.polling = FALSE,
               !.has_data = FALSE, !.data = EmptyMap,
               !.timer = listening, !.outcome = "failed", !.ever_failed = TRUE]

\* the refresh wrapper when _async_update_data raised: data kept, failure
\* recorded, next refresh scheduled iff somebody listens
RefreshFailed(co, listening) ==
    [co EXCEPT !.last_update_success = FALSE, !.polling = FALSE,
               !.timer = listening, !.outcome = "failed", !.ever_failed = TRUE]

\* a refresh that merges the new map into the old one
RefreshSucceededMerging(co, map, raw, listening) ==
    [co EXCEPT !.last_update_success = TRUE, !.polling = FALSE,
               !.has_data = TRUE,
               !.data = [k \in (DOMAIN co.data) \cup (DOMAIN map) |->
                            IF k \in DOMAIN map THEN map[k] ELSE co.data[k]],
               !.timer = listening, !.outcome = "ok", !.ever_ok = TRUE,
               !.last_good = map, !.last_raw = raw]

\* the refresh wrapper when _async_update_data returned: self.data = result
RefreshSucceeded(co, map, raw, listening) ==
    [co EXCEPT !.last_update_success = TRUE, !.polling = FALSE,
               !.has_data = TRUE, !.data = map,
               !.timer = listening, !.outcome = "ok", !.ever_ok = TRUE,
               !.last_good = map, !.last_raw = raw]

\* ------------------------------------------------------------------------
\* Classification of a metric name (_update_sensor_attributes)
\* ------------------------------------------------------------------------
\* `p in s` of two strings
Contains(s, p) ==
    \E i \in 1..(Len(s) - Len(p) + 1) : SubSeq(s, i, i + Len(p) - 1) = p

\* str.endswith
EndsWith(s, p) == Len(p) <= Len(s) /\ SubSeq(s, Len(s) - Len(p) + 1, Len(s)) = p

\* the substrings the classification looks for
pBytes == <<"_", "b", "y", "t", "e", "s">>
pSeconds == <<"_", "s", "e", "c", "o", "n", "d", "s">>
pCelsius == <<"_", "c", "e", "l", "s", "i", "u", "s">>
pTemperatureCelsius == <<"t", "e", "m", "p", "e", "r", "a", "t", "u", "r", "e", "_", "c", "e", "l", "s", "i", "u", "s">>
pFahrenheit == <<"_", "f", "a", "h", "r", "e", "n", "h", "e", "i", "t">>
pTemperatureFahrenheit == <<"t", "e", "m", "p", "e", "r", "a", "t", "u", "r", "e", "_", "f", "a", "h", "r", "e", "n", "h", "e", "i", "t">>
pPercent == <<"_", "p", "e", "r", "c", "e", "n", "t">>
pRatio == <<"_", "r", "a", "t", "i", "o">>
pVoltage == <<"v", "o", "l", "t", "a", "g", "e">>
pCurrent == <<"c", "u", "r", "r", "e", "n", "t">>
pAmperes == <<"a", "m", "p", "e", "r", "e", "s">>
pEnergyKwh == <<"e", "n", "e", "r", "g", "y", "_", "k", "w", "h">>
pKwh == <<"_", "k", "w", "h">>
pPowerWatts == <<"p", "o", "w", "e", "r", "_", "w", "a", "t", "t", "s">>
pWatts == <<"_", "w", "a", "t", "t", "s">>
pCpu == <<"c", "p", "u">>
pMemory == <<"m", "e", "m", "o", "r", "y">>
pDisk == <<"d", "i", "s", "k">>
pNetwork == <<"n", "e", "t", "w", "o", "r", "k">>
pProcess == <<"p", "r", "o", "c", "e", "s", "s">>
pTotal == <<"_", "t", "o", "t", "a", "l">>
pCount == <<"_", "c", "o", "u", "n", "t">>

\* the if/elif chain that sets unit and device class, with the branches for
\* seconds and bytes in the opposite order
UnitOfSecondsFirst(raw_metric_name) ==
    IF Contains(raw_metric_name, pSeconds) THEN <<"s", "duration">>
    ELSE IF Contains(raw_metric_name, pBytes) THEN <<"bytes", "data_size">>
    ELSE <<"None", "None">>

\* the if/elif chain that sets _attr_native_unit_of_measurement and
\* _attr_device_class: <<unit, device class>>, "None" for None, "C" and "F"
\* for the degree units
UnitOf(raw_metric_name) ==
    IF Contains(raw_metric_name, pBytes) THEN <<"bytes", "data_size">>
    ELSE IF Contains(raw_metric_name, pSeconds) THEN <<"s", "duration">>
    ELSE IF Contains(raw_metric_name, pCelsius)
            \/ Contains(raw_metric_name, pTemperatureCelsius)
    THEN <<"C", "temperature">>
    ELSE IF Contains(raw_metric_name, pFahrenheit)
            \/ Contains(raw_metric_name, pTemperatureFahrenheit)
    THEN <<"F", "temperature">>
    ELSE IF Contains(raw_metric_name, pPercent) \/ Contains(raw_metric_name, pRatio)
    THEN <<"%", "power_factor">>
    ELSE IF Contains(raw_metric_name, pVoltage) THEN <<"V", "voltage">>
    ELSE IF Contains(raw_metric_name, pCurrent) \/ Contains(raw_metric_name, pAmperes)
    THEN <<"A", "current">>
    ELSE IF Contains(raw_metric_name, pEnergyKwh) \/ Contains(raw_metric_name, pKwh)
    THEN <<"kWh", "energy">>
    ELSE IF Contains(raw_metric_name, pPowerWatts) \/ Contains(raw_metric_name, pWatts)
    THEN <<"W", "power">>
    ELSE <<"None", "None">>

\* the icon guessed in the else branch of the chain
IconOf(raw_metric_name) ==
    IF Contains(raw_metric_name, pCpu) THEN "mdi:cpu-64-bit"
    ELSE IF Contains(raw_metric_name, pMemory) THEN "mdi:memory"
    ELSE IF Contains(raw_metric_name, pDisk) THEN "mdi:harddisk"
    ELSE IF Contains(raw_metric_name, pNetwork) THEN "mdi:network-outline"
    ELSE IF Contains(raw_metric_name, pProcess) THEN "mdi:cogs"
    ELSE "mdi:chart-line"

\* a state class that looks for "_count" anywhere in the name
StateClassOfCountAnywhere(raw_metric_name) ==
    IF Contains(raw_metric_name, pTotal) \/ Contains(raw_metric_name, pCount)
    THEN "total_increasing"
    ELSE "measurement"

\* _attr_state_class
StateClassOf(raw_metric_name) ==
    IF Contains(raw_metric_name, pTotal) \/ EndsWith(raw_metric_name, pCount)
    THEN "total_increasing"
    ELSE "measurement"

\* _update_sensor_attributes(metric_data): value, labels, unit and device
\* class, the icon only when no unit branch was taken, state class, and the
\* extra state attributes
UpdateSensorAttributes(s, metric_data) ==
    [s EXCEPT !.native_value = metric_data.value,
              !.metric_labels = metric_data.labels,
              !.native_unit_of_measurement = UnitOf(metric_data.name)[1],
              !.device_class = UnitOf(metric_data.name)[2],
              !.icon = IF UnitOf(metric_data.name) = <<"None", "None">>
                       THEN IconOf(metric_data.name) ELSE @,
              !.state_class = StateClassOf(metric_data.name),
              !.prometheus_metric_name = metric_data.name,
              !.last_synced_timestamp = metric_data.timestamp]

\* _handle_coordinator_update of one sensor, the coordinator holding data
HandleCoordinatorUpdate(s, data) ==
    IF s.metric_key \in DOMAIN data
    THEN UpdateSensorAttributes(s, data[s.metric_key])
    ELSE s

\* async_update_listeners: every subscribed sensor of c handles the update
NotifyListeners(ss, c, data) ==
    {IF s.coordinator = c /\ s.added THEN HandleCoordinatorUpdate(s, data) ELSE s : s \in ss}

\* an availability that looks at the data map only
availableKeyOnly(cs, s) ==
    IF ~cs[s.coordinator].has_data THEN "TypeError"
    ELSE IF s.metric_key \in DOMAIN cs[s.coordinator].data THEN "True"
    ELSE "False"

\* the property available of a sensor, cs being the coordinators:
\* `last_update_success and self._metric_key in self.coordinator.data`; the
\* membership test raises TypeError while the data is None
available(cs, s) ==
    IF ~cs[s.coordinator].last_update_success THEN "False"
    ELSE IF ~cs[s.coordinator].has_data THEN "TypeError"
    ELSE IF s.metric_key \in DOMAIN cs[s.coordinator].data THEN "True"
    ELSE "False"

\* PrometheusSensor(coordinator, metric_key, target_config), not yet added: the
\* attributes the class leaves unset are None
NewSensor(c, key, data) ==
    UpdateSensorAttributes(
        [coordinator |-> c, metric_key |-> key, native_value |-> "",
         metric_labels |-> <<>>, native_unit_of_measurement |-> "None",
         device_class |-> "None", icon |-> "None", state_class |-> "None",
         prometheus_metric_name |-> <<>>,
         last_synced_timestamp |-> 0, added |-> FALSE],
        data[key])

\* ------------------------------------------------------------------------
\* Initial state: Home Assistant has read its configuration, nothing is set up
\* ------------------------------------------------------------------------
NoPlatform == [state |-> "none", pos |-> 0, len |-> 0, used |-> 0, cur |-> 0]

Init ==
    /\ yaml = [state |-> "boot", raw |-> YamlConfig(FALSE, None, <<>>),
               config |-> YamlConfig(FALSE, None, <<>>)]
    /\ registry = <<>>
    /\ coord = [c \in CoordIds |-> NoCoordinator]
    /\ made = 0
    /\ sensors = {}
    /\ platform = NoPlatform
    /\ entry = [state |-> "not_loaded", coordinator |-> 0, data |-> Blank,
                options |-> None, had_failure |-> FALSE, via_reload |-> FALSE]
    /\ probe = "unused"

\* ------------------------------------------------------------------------
\* One refresh of a coordinator (the inherited refresh wrapper around
\* _async_update_data)
\* ------------------------------------------------------------------------
\* the coordinators and sensors after a refresh of c has ended in failure
EndFailed(cs, ss, c) ==
    [coordinators |-> [cs EXCEPT ![c] = RefreshFailed(cs[c], Listeners(ss, c) # {})],
     sensors      |-> IF cs[c].has_data THEN NotifyListeners(ss, c, cs[c].data) ELSE ss]

\* the coordinators and sensors after a refresh of c has returned map
EndSucceeded(cs, ss, c, map, raw) ==
    [coordinators |-> [cs EXCEPT ![c] =
                          RefreshSucceeded(cs[c], map, raw, Listeners(ss, c) # {})],
     sensors      |-> NotifyListeners(ss, c, map)]

\* a refresh of c starts: the pending timer is cancelled and _async_update_data
\* runs up to its first await.  A KeyError on the configuration reads ends the
\* refresh on the spot; otherwise the fetch is in flight.
BeginRefresh(cs, ss, c) ==
    IF ConfigReadRaises(cs[c].target_config)
    THEN EndFailed(cs, ss, c)
    ELSE [coordinators |-> [cs EXCEPT ![c].polling = TRUE, ![c].timer = FALSE],
          sensors      |-> ss]

\* the rest of a refresh of c whose fetch ended with exchange ex: the try block
\* runs, the wrapper stores the outcome and tells the listeners
EndCycle(cs, ss, c, ex) ==
    LET out == UpdateData(ex, FilterOf(cs[c].target_config))
    IN  IF out.raised THEN EndFailed(cs, ss, c)
        ELSE EndSucceeded(cs, ss, c, out.map, async_get_prometheus_metrics(ex).result)

\* the scheduled refresh of c fires
ScheduledRefresh(c) ==
    /\ coord[c].exists /\ coord[c].timer /\ ~coord[c].polling
    /\ LET r == BeginRefresh(coord, sensors, c)
       IN  /\ coord' = r.coordinators
           /\ sensors' = r.sensors
    /\ UNCHANGED <<yaml, registry, made, platform, entry, probe>>

\* the fetch of c's running cycle ends with exchange ex; the cycle processes
\* the result and the refresh wrapper stores the outcome and tells the listeners
CycleComplete(c, ex) ==
    /\ coord[c].exists /\ coord[c].polling
    /\ LET r == EndCycle(coord, sensors, c, ex)
       IN  /\ coord' = r.coordinators
           /\ sensors' = r.sensors
    /\ UNCHANGED <<yaml, registry, made, platform, entry, probe>>

\* ------------------------------------------------------------------------
\* YAML set-up
\* ------------------------------------------------------------------------
\* the registry after the loop `for target_config in targets` of async_setup,
\* target i getting coordinator object first + i
RECURSIVE RegisterTargets(_, _, _, _)
RegisterTargets(reg, targets, i, first) ==
    IF i > Len(targets) THEN reg
    ELSE RegisterTargets(DictSet(reg, targets[i].target_name[1], first + i),
                         targets, i + 1, first)

\* the YAML section fails CONFIG_SCHEMA: the integration is not set up and
\* async_setup never runs
ConfigRejected(cfg) ==
    /\ yaml.state = "boot"
    /\ cfg.present /\ ~ConfigSchemaAccepts(cfg)
    /\ yaml' = [state |-> "invalid", raw |-> cfg, config |-> cfg]
    /\ UNCHANGED <<registry, coord, made, sensors, platform, entry, probe>>

\* async_setup(hass, config), called with the validated configuration
AsyncSetup(cfg) ==
    /\ yaml.state = "boot"
    /\ ~cfg.present \/ ConfigSchemaAccepts(cfg)
    /\ LET config  == IF cfg.present THEN CONFIG_SCHEMA(cfg) ELSE cfg
           targets == config.targets
           global_scrape_interval == config.scrape_interval[1]
       IN  /\ yaml' = [state |-> IF cfg.present THEN "loaded" ELSE "absent",
                       raw |-> cfg, config |-> config]
           /\ coord' = [c \in CoordIds |->
                 IF made < c /\ c <= made + Len(targets)
                 THEN NewCoordinator(targets[c - made],
                          YamlScrapeInterval(targets[c - made], global_scrape_interval))
                 ELSE coord[c]]
           /\ made' = made + Len(targets)
           /\ registry' = RegisterTargets(<<>>, targets, 1, made)
           /\ platform' = IF targets # <<>> THEN [NoPlatform EXCEPT !.state = "pending"]
                          ELSE NoPlatform
    /\ UNCHANGED <<sensors, entry, probe>>

\* ------------------------------------------------------------------------
\* async_setup_platform (sensor.py), one await at a time
\* ------------------------------------------------------------------------
\* the platform task starts: it fetches the registry and opens the loop
PlatformStart ==
    /\ platform.state = "pending"
    /\ platform' = IF DictLen(registry) = 0
                   THEN [platform EXCEPT !.state = "done"]
                   ELSE [platform EXCEPT !.state = "iterating", !.pos = 0,
                                         !.len = DictLen(registry),
                                         !.used = DictLen(registry)]
    /\ UNCHANGED <<yaml, registry, coord, made, sensors, entry, probe>>

\* async_add_entities(sensors_to_add, True): every created sensor is added to
\* the platform and subscribes to its coordinator; a coordinator's first
\* listener schedules its refresh
AddEntities(cs, ss) ==
    [coordinators |-> [c \in CoordIds |->
                          IF \E s \in ss : s.coordinator = c /\ ~s.added
                          THEN [cs[c] EXCEPT !.timer = ~cs[c].polling]
                          ELSE cs[c]],
     sensors      |-> {[s EXCEPT !.added = TRUE] : s \in ss}]

\* the loop `for coordinator_key, coordinator in coordinators.items()` takes
\* its next step: the dict iterator raises RuntimeError when the registry
\* changed under it; at the end of the loop the sensors are added; otherwise
\* the next coordinator's first refresh is started and awaited
PlatformNext ==
    /\ platform.state = "iterating"
    /\ LET later == {i \in LiveIdx(registry) : i > platform.pos}
       IN  IF DictLen(registry) # platform.used \/ (later # {} /\ platform.len = 0)
           THEN /\ platform' = [platform EXCEPT !.state = "aborted"]
                /\ sensors' = {s \in sensors : s.added}
                /\ UNCHANGED coord
           ELSE IF later = {}
           THEN LET r == AddEntities(coord, sensors)
                IN  /\ platform' = [platform EXCEPT !.state = "done"]
                    /\ coord' = r.coordinators
                    /\ sensors' = r.sensors
           ELSE LET i == CHOOSE j \in later : \A k \in later : j <= k
                    c == registry[i].coordinator
                    r == BeginRefresh(coord, sensors, c)
                IN  /\ platform' = [platform EXCEPT !.state = "awaiting", !.pos = i,
                                                    !.len = @ - 1, !.cur = c]
                    /\ coord' = r.coordinators
                    /\ sensors' = r.sensors
    /\ UNCHANGED <<yaml, registry, made, entry, probe>>

\* a loop body that does not skip a coordinator whose refresh failed
SensorsForIgnoringFailure(cs, c) ==
    IF ~cs[c].has_data \/ DOMAIN cs[c].data = {} THEN {}
    ELSE {NewSensor(c, k, cs[c].data) : k \in DOMAIN cs[c].data}

\* the sensors the loop body creates for coordinator c once its first refresh
\* has returned: none when the refresh failed or the data is empty
SensorsFor(cs, c) ==
    IF ~cs[c].last_update_success THEN {}
    ELSE IF ~cs[c].has_data \/ DOMAIN cs[c].data = {} THEN {}
    ELSE {NewSensor(c, k, cs[c].data) : k \in DOMAIN cs[c].data}

\* the awaited first refresh of the current coordinator is over: the loop body
\* goes on
PlatformResume ==
    /\ platform.state = "awaiting"
    /\ ~coord[platform.cur].polling
    /\ sensors' = sensors \cup SensorsFor(coord, platform.cur)
    /\ platform' = [platform EXCEPT !.state = "iterating"]
    /\ coord' = [coord EXCEPT ![platform.cur].platform_saw =
                    IF ~coord[platform.cur].last_update_success THEN "failed"
                    ELSE IF SensorsFor(coord, platform.cur) = {} THEN "empty"
                    ELSE "data"]
    /\ UNCHANGED <<yaml, registry, made, entry, probe>>

\* ------------------------------------------------------------------------
\* The config entry
\* ------------------------------------------------------------------------
\* async_setup_entry up to its await: the coordinator is built from entry.data
\* and entry.options and its first refresh is started.  A set-up that Home
\* Assistant retries after ConfigEntryNotReady sees the same data and options;
\* had_failure is history: some set-up of the entry ended in a failed refresh.
EntrySetup(data, options) ==
    /\ yaml.state \in {"absent", "loaded"}
    /\ \/ entry.state = "not_loaded"
       \/ entry.state = "setup_retry" /\ data = entry.data /\ options = entry.options
    /\ made < MaxCoords
    /\ LET c  == made + 1
           cs == [coord EXCEPT ![c] =
                     NewCoordinator(data, EntryScrapeInterval(options, data))]
           r  == BeginRefresh(cs, sensors, c)
       IN  /\ coord' = r.coordinators
           /\ sensors' = r.sensors
           /\ made' = c
           /\ entry' = [entry EXCEPT !.state = "refreshing", !.coordinator = c,
                                     !.data = data, !.options = options,
                                     !.via_reload = FALSE]
    /\ UNCHANGED <<yaml, registry, platform, probe>>

\* async_setup_entry after the awaited first refresh: a failed refresh raises
\* ConfigEntryNotReady (Home Assistant retries a set-up it started itself; the
\* exception of a set-up started by async_reload_entry ends the update
\* listener and the entry stays as Home Assistant knew it, its coordinator not
\* registered); otherwise the coordinator is registered under the entry id.
\* The sensor platform has no async_setup_entry, so forwarding the entry
\* creates no entity.
EntryResume ==
    /\ entry.state = "refreshing"
    /\ ~coord[entry.coordinator].polling
    /\ IF coord[entry.coordinator].last_update_success
       THEN /\ registry' = DictSet(registry, EntryId, entry.coordinator)
            /\ entry' = [entry EXCEPT !.state = "loaded"]
       ELSE /\ entry' = [entry EXCEPT
                            !.state = IF entry.via_reload THEN "reload_failed"
                                      ELSE "setup_retry",
                            !.had_failure = TRUE]
            /\ UNCHANGED registry
    /\ UNCHANGED <<yaml, coord, made, sensors, platform, probe>>

\* an unload that drops the registry dict whether or not it is empty
UnloadedDropsRegistry(reg, unload_ok) ==
    IF ~unload_ok THEN reg ELSE <<>>

\* the registry after the body of async_unload_entry
Unloaded(reg, unload_ok) ==
    IF ~unload_ok THEN reg
    ELSE IF DictLen(DictPop(reg, EntryId)) = 0 THEN <<>>
    ELSE DictPop(reg, EntryId)

\* async_unload_entry: the registry entry is popped iff the platforms unloaded;
\* an emptied registry dict is removed from hass.data.  After a reload whose
\* set-up failed the entry id is not in the registry and pop raises KeyError.
EntryUnload(unload_ok) ==
    /\ entry.state \in {"loaded", "reload_failed"}
    /\ IF unload_ok /\ DictHas(registry, EntryId)
       THEN /\ registry' = Unloaded(registry, unload_ok)
            /\ entry' = [entry EXCEPT !.state = "not_loaded"]
       ELSE /\ entry' = [entry EXCEPT !.state = "failed_unload"]
            /\ UNCHANGED registry
    /\ UNCHANGED <<yaml, coord, made, sensors, platform, probe>>

\* async_reload_entry, run by the update listener when the options changed:
\* async_unload_entry, then, whatever it returned, async_setup_entry up to its
\* awaited first refresh.  The coordinator built before is neither shut down
\* nor awaited.
EntryReload(unload_ok, options) ==
    /\ entry.state = "loaded"
    /\ options # entry.options
    /\ DictHas(registry, EntryId)
    /\ made < MaxCoords
    /\ LET c  == made + 1
           cs == [coord EXCEPT ![c] =
                     NewCoordinator(entry.data, EntryScrapeInterval(options, entry.data))]
           r  == BeginRefresh(cs, sensors, c)
       IN  /\ registry' = Unloaded(registry, unload_ok)
           /\ coord' = r.coordinators
           /\ sensors' = r.sensors
           /\ made' = c
           /\ entry' = [entry EXCEPT !.state = "refreshing", !.coordinator = c,
                                     !.options = options, !.via_reload = TRUE]
    /\ UNCHANGED <<yaml, platform, probe>>

Next ==
    \/ \E cfg \in YamlConfigs : ConfigRejected(cfg)
    \/ \E cfg \in YamlConfigs : AsyncSetup(cfg)
    \/ PlatformStart
    \/ PlatformNext
    \/ PlatformResume
    \/ \E c \in CoordIds : ScheduledRefresh(c)
    \/ \E c \in CoordIds, ex \in Exchanges : CycleComplete(c, ex)
    \/ \E e \in EntryChoices : EntrySetup(e.data, e.options)
    \/ EntryResume
    \/ \E ok \in BOOLEAN : EntryUnload(ok)
    \/ \E ok \in BOOLEAN, o \in {None, Some(20)} : EntryReload(ok, o)

Spec == Init /\ [][Next]_vars

\* ------------------------------------------------------------------------
\* SpecLive: the main specification under the scheduling Home Assistant
\* guarantees: a started task runs on, an armed timer fires, and a fetch ends
\* (the request carries a ten-second timeout).  Set-up, unload and the
\* configuration are the environment's and get no fairness.
\* ------------------------------------------------------------------------
Fairness ==
    /\ WF_vars(PlatformStart)
    /\ WF_vars(PlatformNext)
    /\ WF_vars(PlatformResume)
    /\ WF_vars(EntryResume)
    /\ \A c \in CoordIds : WF_vars(ScheduledRefresh(c))
    /\ \A c \in CoordIds : WF_vars(\E ex \in Exchanges : CycleComplete(c, ex))

SpecLive == Spec /\ Fairness

\* ------------------------------------------------------------------------
\* SpecCycle: one coordinator polled again and again, every exchange the
\* network can produce, the exchange of the last cycle kept in probe
\* ------------------------------------------------------------------------
InitCycle ==
    /\ yaml = [state |-> "absent", raw |-> YamlConfig(FALSE, None, <<>>),
               config |-> YamlConfig(FALSE, None, <<>>)]
    /\ registry = <<>>
    /\ \E e \in EntryChoices :
          coord = [c \in CoordIds |->
                      IF c = 1 THEN NewCoordinator(e.data, EntryScrapeInterval(e.options, e.data))
                      ELSE NoCoordinator]
    /\ made = 1
    /\ sensors = {}
    /\ platform = NoPlatform
    /\ entry = [state |-> "not_loaded", coordinator |-> 0, data |-> Blank,
                options |-> None, had_failure |-> FALSE, via_reload |-> FALSE]
    /\ probe = [exchange |-> Exchange("none", "", <<>>), had_data |-> FALSE,
                before |-> EmptyMap]

\* one whole refresh of coordinator 1, its fetch ending with exchange ex
PollCycle(ex) ==
    /\ LET b == BeginRefresh(coord, sensors, 1)
           r == IF b.coordinators[1].polling
                THEN EndCycle(b.coordinators, b.sensors, 1, ex)
                ELSE b
       IN  /\ coord' = r.coordinators
           /\ sensors' = r.sensors
    /\ probe' = [exchange |-> ex, had_data |-> coord[1].has_data,
                 before |-> coord[1].data]
    /\ UNCHANGED <<yaml, registry, made, platform, entry>>

NextCycle == \E ex \in Exchanges : PollCycle(ex)

SpecCycle == InitCycle /\ [][NextCycle]_vars

\* ------------------------------------------------------------------------
\* SpecFilter: the filter chain of one cycle on every small result list and
\* every filter configuration
\* ------------------------------------------------------------------------
sNB == <<"n", "_", "b">>

\* a sample with a value pair and no label but its name
Named(name) == RawSample(<< <<NameLabel, name>> >>, <<1700, "1">>)

\* samples of the filter exploration: three named ones, one whose name is
\* empty, one without a __name__ label
FilterSamples == {Named(sUp), Named(sNA), Named(sNB), Named(<<>>), RawSample(<<>>, <<1700, "1">>)}

FilterChoices ==
    { FilterConfig(p, i, x) :
        p \in {None, Some(<<>>), Some(sNPrefix)},
        i \in {None, Some(<<>>), Some(<<sUp>>), Some(<<sNA, sUp>>)},
        x \in {None, Some(<<>>), Some(<<sNA>>)} }

InitFilter ==
    /\ yaml = [state |-> "absent", raw |-> YamlConfig(FALSE, None, <<>>),
               config |-> YamlConfig(FALSE, None, <<>>)]
    /\ registry = <<>>
    /\ coord = [c \in CoordIds |-> NoCoordinator]
    /\ made = 0
    /\ sensors = {}
    /\ platform = NoPlatform
    /\ entry = [state |-> "not_loaded", coordinator |-> 0, data |-> Blank,
                options |-> None, had_failure |-> FALSE, via_reload |-> FALSE]
    /\ \E f \in FilterChoices, r \in SeqsUpTo(FilterSamples, MaxSamples) :
          probe = [stage |-> "input", cfg |-> f, raw |-> r, map |-> EmptyMap]

\* the loop of _async_update_data runs over the result list
ApplyFilter ==
    /\ probe.stage = "input"
    /\ probe' = [probe EXCEPT !.stage = "done",
                              !.map = ProcessMetrics(probe.raw, probe.cfg).map]
    /\ UNCHANGED <<yaml, registry, coord, made, sensors, platform, entry>>

NextFilter == ApplyFilter

SpecFilter == InitFilter /\ [][NextFilter]_vars

\* ------------------------------------------------------------------------
\* SpecKey: the key of one series whose labels arrive in two orders
\* ------------------------------------------------------------------------
sCore == <<"c", "o", "r", "e">>
sCpuTemperatureCelsius == <<"c", "p", "u", "_", "t", "e", "m", "p", "e", "r", "a", "t", "u", "r", "e", "_", "c", "e", "l", "s", "i", "u", "s">>
KeyNames == {sUp, sCpuTemperatureCelsius}
KeyLabelNames == {<<"a">>, <<"b">>, sCore}
KeyLabelValues == {<<"0">>, <<"1">>}

\* label mappings of at most MaxLabels labels, as sets of items
KeyMappings ==
    {m \in SUBSET (KeyLabelNames \X KeyLabelValues) :
        /\ Cardinality(m) <= MaxLabels
        /\ \A x \in m, y \in m : x[1] = y[1] => x = y}

\* the orders in which a mapping's items can be transmitted
Orderings(m) ==
    {q \in [1..Cardinality(m) -> m] : \A i, j \in 1..Cardinality(m) : i # j => q[i] # q[j]}

InitKey ==
    /\ yaml = [state |-> "absent", raw |-> YamlConfig(FALSE, None, <<>>),
               config |-> YamlConfig(FALSE, None, <<>>)]
    /\ registry = <<>>
    /\ coord = [c \in CoordIds |-> NoCoordinator]
    /\ made = 0
    /\ sensors = {}
    /\ platform = NoPlatform
    /\ entry = [state |-> "not_loaded", coordinator |-> 0, data |-> Blank,
                options |-> None, had_failure |-> FALSE, via_reload |-> FALSE]
    /\ \E m \in KeyMappings, name \in KeyNames :
          \E l1 \in Orderings(m \cup {<<NameLabel, name>>}),
             l2 \in Orderings(m \cup {<<NameLabel, name>>}) :
                probe = [stage |-> "input", labels1 |-> l1, labels2 |-> l2,
                         key1 |-> <<>>, key2 |-> <<>>]

\* the key of each of the two samples is derived as the cycle derives it
DeriveKeys ==
    /\ probe.stage = "input"
    /\ probe' = [probe EXCEPT !.stage = "done",
                              !.key1 = metric_key(GetName(probe.labels1)[2], probe.labels1),
                              !.key2 = metric_key(GetName(probe.labels2)[2], probe.labels2)]
    /\ UNCHANGED <<yaml, registry, coord, made, sensors, platform, entry>>

NextKey == DeriveKeys

SpecKey == InitKey /\ [][NextKey]_vars

\* ========================================================================
\* Claims
\* ========================================================================
Registered(c) == \E i \in LiveIdx(registry) : registry[i].coordinator = c

\* async_setup_platform is not running and will not run
PlatformOver == platform.state \in {"none", "done", "aborted"}

\* C1: a poll cycle that fails leaves the coordinator's data map equal to the
\* map of the most recent successful cycle (None when there was none) and
\* last_update_success false.
C1_FailedCycleKeepsData ==
    \A c \in CoordIds :
        coord[c].outcome = "failed" =>
            /\ ~coord[c].last_update_success
            /\ coord[c].has_data = coord[c].ever_ok
            /\ coord[c].data = coord[c].last_good

\* C1 witness: a cycle failed on a coordinator that holds the non-empty map of
\* an earlier successful cycle.
C1_Witness ==
    \E c \in CoordIds :
        /\ coord[c].outcome = "failed" /\ ~coord[c].polling
        /\ coord[c].ever_ok /\ DOMAIN coord[c].data # {}

\* C2 as claimed: whenever the exchange of the last cycle was an HTTP-level
\* failure, a non-2xx status, a timeout or a payload whose status is not
\* "success", the cycle failed and the data map is the one held before.
C2_AsClaimed ==
    (probe.exchange.kind # "none"
        /\ ~(probe.exchange.kind = "payload" /\ probe.exchange.status = "success"))
    => /\ coord[1].outcome = "failed"
       /\ ~coord[1].last_update_success
       /\ coord[1].has_data = probe.had_data
       /\ coord[1].data = probe.before

\* the keys of the samples of raw that pass the filter of coordinator c
RetainedKeys(c, raw) ==
    {metric_key(GetName(raw[i].metric)[2], raw[i].metric) :
        i \in {j \in 1..Len(raw) : Retained(raw[j], FilterOf(coord[c].target_config))}}

\* the keys of the samples of raw that pass the filter and carry a value pair
RetainedValueKeys(c, raw) ==
    {metric_key(GetName(raw[i].metric)[2], raw[i].metric) :
        i \in {j \in 1..Len(raw) : /\ Retained(raw[j], FilterOf(coord[c].target_config))
                                   /\ HasValuePair(raw[j])}}

KeepRule(item, cfg) ==
    /\ GetName(item.metric)[1]
    /\ GetName(item.metric)[2] # <<>>
    /\ (~IsSet(cfg.metrics_prefix) \/ StartsWith(GetName(item.metric)[2], cfg.metrics_prefix[1]))
    /\ \/ ~IsSet(cfg.included_metrics)
       \/ cfg.included_metrics[1] = <<>>
       \/ GetName(item.metric)[2] \in Elems(cfg.included_metrics[1])
    /\ ~(IsSet(cfg.excluded_metrics) /\ GetName(item.metric)[2] \in Elems(cfg.excluded_metrics[1]))

\* C4: the names that reach the normalized map are exactly the names of the
\* samples that have a non-empty name, match the prefix if one is set, are in
\* the include-list if one is set and non-empty, and are not in the
\* exclude-list.
C4_RetainedIffRule ==
    probe.stage = "done" =>
        DOMAIN probe.map =
            {GetName(probe.raw[i].metric)[2] :
                i \in {j \in 1..Len(probe.raw) : KeepRule(probe.raw[j], probe.cfg)}}

\* C4 witness: with an empty include-list a sample is kept while another one
\* of the same list is dropped by the exclude-list.
C4_Witness ==
    /\ probe.stage = "done"
    /\ probe.cfg.included_metrics = Some(<<>>)
    /\ probe.cfg.excluded_metrics = Some(<<sNA>>)
    /\ DOMAIN probe.map = {sUp}
    /\ Len(probe.raw) = 2

\* C5: two label mappings holding the same pairs in different orders derive
\* the same key.
C5_KeyOrderIndependent ==
    probe.stage = "done" => probe.key1 = probe.key2

\* C5 witness: keys were derived for two different orders of a mapping of two
\* labels and the name label.
C5_Witness ==
    /\ probe.stage = "done"
    /\ Len(probe.labels1) = 3
    /\ probe.labels1 # probe.labels2
    /\ probe.labels1[1][1] # NameLabel
    /\ probe.key1 # <<>>

\* C6 as claimed: a YAML target's coordinator polls at the target's own
\* interval, else at the global interval, else every 60 seconds; the entry's
\* coordinator at the target's own interval, else at the entry-level override,
\* else every 60 seconds.
C6_AsClaimed ==
    /\ yaml.state = "loaded" =>
          \A i \in 1..Len(yaml.raw.targets) :
              coord[i].update_interval =
                  Get(yaml.raw.targets[i].scrape_interval,
                      Get(yaml.raw.scrape_interval, DEFAULT_SCRAPE_INTERVAL))
    /\ entry.coordinator # 0 =>
          coord[entry.coordinator].update_interval =
              Get(coord[entry.coordinator].target_config.scrape_interval,
                  Get(entry.options, DEFAULT_SCRAPE_INTERVAL))

\* C7: sensors exist for a coordinator only if the first refresh that
\* async_setup_platform awaited for it succeeded with a non-empty map; every
\* sensor carries a value of a completed cycle.
C7_EntitiesOnlyAfterCompletedCycle ==
    \A s \in sensors :
        /\ coord[s.coordinator].platform_saw = "data"
        /\ coord[s.coordinator].ever_ok
        /\ coord[s.coordinator].has_data
        /\ s.native_value # ""

\* C7 witness: sensors exist for one coordinator while another coordinator,
\* whose awaited first refresh failed, has none.
C7_Witness ==
    /\ \E s \in sensors : s.added
    /\ \E c \in CoordIds : coord[c].platform_saw = "failed"

\* the added sensors of coordinator c
SensorsOf(c) == {s \in sensors : s.coordinator = c /\ s.added}

\* C8 as claimed: once set-up is over, a registered target that had a failed
\* cycle and whose last cycle succeeded with series has entities, and they
\* carry the new values.
C8_AsClaimed ==
    (PlatformOver /\ entry.state # "refreshing") =>
        \A c \in CoordIds :
            ( /\ Registered(c)
              /\ coord[c].ever_failed \/ (c = entry.coordinator /\ entry.had_failure)
              /\ coord[c].outcome = "ok"
              /\ DOMAIN coord[c].data # {} )
            => /\ SensorsOf(c) # {}
               /\ \A s \in SensorsOf(c) :
                     s.metric_key \in DOMAIN coord[c].data =>
                         s.native_value = coord[c].data[s.metric_key].value

\* C9 as claimed: whenever a registered coordinator has finished a cycle and
\* is idle, another cycle of it eventually starts, unless it is deregistered.
C9_AsClaimed ==
    \A c \in CoordIds :
        (Registered(c) /\ coord[c].outcome # "none" /\ ~coord[c].polling)
            ~> (coord[c].polling \/ ~Registered(c))

\* some target of the YAML section as written fails TARGET_SCHEMA
SomeTargetInvalid ==
    \E i \in 1..Len(yaml.raw.targets) : ~TargetSchemaAccepts(yaml.raw.targets[i])

\* C10 as claimed: once the YAML section is loaded, every target of it that
\* passes the schema has a coordinator registered under its name.
C10_AsClaimed ==
    yaml.state # "boot" =>
        \A i \in 1..Len(yaml.raw.targets) :
            TargetSchemaAccepts(yaml.raw.targets[i]) =>
                DictHas(registry, yaml.raw.targets[i].target_name[1])

\* C10 amended: a target that fails the schema is detected before any
\* coordinator is created and prevents the set-up of the whole integration:
\* no coordinator is ever created, for any target.
C10_InvalidTargetBlocksSetup ==
    (yaml.state # "boot" /\ SomeTargetInvalid) =>
        /\ yaml.state = "invalid"
        /\ made = 0
        /\ registry = <<>>
        /\ \A c \in CoordIds : ~coord[c].exists

\* C10 witness: the section was rejected although one of its targets passes
\* the schema.
C10_Witness ==
    /\ yaml.state = "invalid"
    /\ \E i \in 1..Len(yaml.raw.targets) : TargetSchemaAccepts(yaml.raw.targets[i])
    /\ SomeTargetInvalid

\* the coordinator object built for target i of the loaded YAML section
YamlCoordinator(i) == i

\* C11 as claimed: no cycle of a coordinator built from a target the schema
\* accepted fails on a configuration key the cycle reads.
C11_AsClaimed ==
    yaml.state = "loaded" =>
        \A i \in 1..Len(yaml.config.targets) :
            ~( /\ coord[YamlCoordinator(i)].ever_failed
               /\ ConfigReadRaises(coord[YamlCoordinator(i)].target_config) )

\* C12 as claimed: once the YAML section is loaded, each of its targets has
\* its own coordinator in the registry under its own name.
C12_AsClaimed ==
    yaml.state = "loaded" =>
        \A i \in 1..Len(yaml.config.targets) :
            /\ DictHas(registry, yaml.config.targets[i].target_name[1])
            /\ DictGet(registry, yaml.config.targets[i].target_name[1]) = YamlCoordinator(i)

\* C13 as claimed: once set-up is over, a registered coordinator that has
\* entities has exactly one entity for every key of its data map.
C13_AsClaimed ==
    PlatformOver =>
        \A c \in CoordIds :
            (Registered(c) /\ SensorsOf(c) # {} /\ coord[c].has_data) =>
                \A k \in DOMAIN coord[c].data :
                    Cardinality({s \in SensorsOf(c) : s.metric_key = k}) = 1

\* ------------------------------------------------------------------------
\* SpecClassify: one entity is constructed from a sample and then handles
\* coordinator updates that deliver its key again, possibly under another
\* metric name (the name cpu with the label u="bytes" and the bare name
\* cpu_u_bytes derive the same key)
\* ------------------------------------------------------------------------
\* number of name fragments joined into one metric name
MaxTokens == 2

ClassifyTokens ==
    {pBytes, pSeconds, pCelsius, pFahrenheit, pPercent, pRatio, pVoltage, pCurrent,
     pAmperes, pKwh, pWatts, pTotal, pCount, pCpu, pMemory, pDisk, pNetwork, pProcess}

RECURSIVE Flatten(_)
Flatten(parts) == IF parts = <<>> THEN <<>> ELSE Head(parts) \o Flatten(Tail(parts))

ClassifyNames == {Flatten(q) : q \in SeqsUpTo(ClassifyTokens, MaxTokens) \ {<<>>}}

sU == <<"u">>
sBytes == <<"b", "y", "t", "e", "s">>

\* a sample of the series `name` without labels, and one with the label u="bytes"
Plain(name) == RawSample(<< <<NameLabel, name>> >>, <<1700, "1">>)
Labelled(name) == RawSample(<< <<NameLabel, name>>, <<sU, sBytes>> >>, <<1700, "1">>)

\* the key _async_update_data derives for a sample
KeyOf(item) == metric_key(GetName(item.metric)[2], item.metric)

LabelledSamples == {Labelled(t) : t \in ClassifyTokens}
\* unlabelled series whose name is the key of a labelled one
CollidingSamples == {Plain(KeyOf(x)) : x \in LabelledSamples}
ConstructSamples == {Plain(n) : n \in ClassifyNames} \cup LabelledSamples \cup CollidingSamples
RefreshSamples == LabelledSamples \cup CollidingSamples

InitClassify ==
    /\ yaml = [state |-> "absent", raw |-> YamlConfig(FALSE, None, <<>>),
               config |-> YamlConfig(FALSE, None, <<>>)]
    /\ registry = <<>>
    /\ coord = [c \in CoordIds |-> NoCoordinator]
    /\ made = 0
    /\ sensors = {}
    /\ platform = NoPlatform
    /\ entry = [state |-> "not_loaded", coordinator |-> 0, data |-> Blank,
                options |-> None, had_failure |-> FALSE, via_reload |-> FALSE]
    /\ probe = [stage |-> "new", sensor |-> <<>>, updates |-> 0]

\* PrometheusSensor(...) for the key of item, the coordinator's data being the
\* map of a cycle that returned item
ConstructSensor(item) ==
    /\ probe.stage = "new"
    /\ probe' = [stage |-> "done",
                 sensor |-> NewSensor(1, KeyOf(item), ProcessMetrics(<<item>>, NoFilter).map),
                 updates |-> 0]
    /\ UNCHANGED <<yaml, registry, coord, made, sensors, platform, entry>>

\* _handle_coordinator_update after a cycle that returned item, a sample that
\* derives the entity's key
ClassifyAgain(item) ==
    /\ probe.stage = "done"
    /\ probe.sensor.metric_key = KeyOf(item)
    /\ probe' = [probe EXCEPT
                    !.sensor = HandleCoordinatorUpdate(@, ProcessMetrics(<<item>>, NoFilter).map),
                    !.updates = 1]
    /\ UNCHANGED <<yaml, registry, coord, made, sensors, platform, entry>>

NextClassify ==
    \/ \E item \in ConstructSamples : ConstructSensor(item)
    \/ \E item \in RefreshSamples : ClassifyAgain(item)

SpecClassify == InitClassify /\ [][NextClassify]_vars

\* the rules in the order the specification gives them: the substrings of a
\* rule, and the unit and category the code attaches to it
ClaimedRules ==
    << [patterns |-> {pBytes},            unit |-> "bytes", category |-> "data_size"],
       [patterns |-> {pSeconds},          unit |-> "s",     category |-> "duration"],
       [patterns |-> {pCelsius},          unit |-> "C",     category |-> "temperature"],
       [patterns |-> {pFahrenheit},       unit |-> "F",     category |-> "temperature"],
       [patterns |-> {pPercent, pRatio},  unit |-> "%",     category |-> "power_factor"],
       [patterns |-> {pVoltage},          unit |-> "V",     category |-> "voltage"],
       [patterns |-> {pCurrent, pAmperes}, unit |-> "A",    category |-> "current"],
       [patterns |-> {pKwh},              unit |-> "kWh",   category |-> "energy"],
       [patterns |-> {pWatts},            unit |-> "W",     category |-> "power"] >>

\* the rules of ClaimedRules that match name
Matching(name) ==
    {i \in 1..Len(ClaimedRules) : \E p \in ClaimedRules[i].patterns : Contains(name, p)}

\* C14: the unit and category of an entity are those of the earliest rule, in
\* the order _bytes, _seconds, _celsius, _fahrenheit, _percent/_ratio, voltage,
\* current/amperes, _kwh, _watts, that matches the name it classified last,
\* and none when no rule matches.
C14_FirstMatchingRuleDecides ==
    probe.stage = "done" =>
        LET m == Matching(probe.sensor.prometheus_metric_name)
        IN  IF m = {}
            THEN /\ probe.sensor.native_unit_of_measurement = "None"
                 /\ probe.sensor.device_class = "None"
            ELSE LET first == CHOOSE i \in m : \A j \in m : i <= j
                 IN  /\ probe.sensor.native_unit_of_measurement = ClaimedRules[first].unit
                     /\ probe.sensor.device_class = ClaimedRules[first].category

\* C14 witness: a name that matches the rules _seconds and _bytes, written in
\* that order, was classified as bytes.
C14_Witness ==
    /\ probe.stage = "done"
    /\ probe.sensor.prometheus_metric_name = pSeconds \o pBytes
    /\ probe.sensor.native_unit_of_measurement = "bytes"

\* unit, category, statistic kind and icon hint of an entity
Classification(s) ==
    <<s.native_unit_of_measurement, s.device_class, s.state_class, s.icon>>

\* C15 as claimed: whatever an entity classified before, its classification is
\* the one a new entity gets for the name classified last.
C15_AsClaimed ==
    probe.stage = "done" =>
        Classification(probe.sensor) =
            Classification(NewSensor(1, probe.sensor.prometheus_metric_name,
                ProcessMetrics(<<Plain(probe.sensor.prometheus_metric_name)>>, NoFilter).map))

\* C16: the state class is total_increasing iff the name classified last
\* contains "_total" or ends with "_count", and measurement otherwise,
\* whichever unit rule matched.
C16_CounterIffTotalOrCountSuffix ==
    probe.stage = "done" =>
        LET name == probe.sensor.prometheus_metric_name
        IN  /\ probe.sensor.state_class \in {"total_increasing", "measurement"}
            /\ probe.sensor.state_class = "total_increasing"
                   <=> (Contains(name, pTotal) \/ EndsWith(name, pCount))

\* C16 witness: a name that holds "_count" before a unit fragment is a gauge
\* with a unit, and not a counter.
C16_Witness ==
    /\ probe.stage = "done"
    /\ probe.sensor.prometheus_metric_name = pCount \o pBytes
    /\ probe.sensor.state_class = "measurement"
    /\ probe.sensor.native_unit_of_measurement = "bytes"

\* the label pairs of a transmitted mapping other than the reserved name label
OtherLabels(items) == {items[i] : i \in {j \in 1..Len(items) : items[j][1] # NameLabel}}

\* "_label_value" for every pair of q, in the order of q
RECURSIVE UnderscorePairs(_)
UnderscorePairs(q) ==
    IF q = <<>> THEN <<>>
    ELSE Underscore \o Head(q)[1] \o Underscore \o Head(q)[2] \o UnderscorePairs(Tail(q))

\* the key as the specification words it: the name, then every other label
\* pair in ascending order of the label names
ClaimedKey(name, items) ==
    LET rest == OtherLabels(items)
        asc  == CHOOSE q \in Orderings(rest) :
                    \A i, j \in 1..Len(q) : i < j => StrLess(q[i][1], q[j][1])
    IN  IF rest = {} THEN name ELSE name \o UnderscorePairs(asc)

\* C17: the derived key is the bare name when the mapping holds only the name
\* label, else the name followed by "_label_value" for every other pair in
\* ascending order of the label names; cpu_temperature_celsius with core=0
\* gives cpu_temperature_celsius_core_0.
C17_KeyIsNameThenSortedPairs ==
    probe.stage = "done" =>
        /\ probe.key1 = ClaimedKey(GetName(probe.labels1)[2], probe.labels1)
        /\ ( /\ GetName(probe.labels1)[2] = sCpuTemperatureCelsius
             /\ OtherLabels(probe.labels1) = {<<sCore, s0>>} )
           => probe.key1 = sCpuTemperatureCelsius \o Underscore \o sCore \o Underscore \o s0

\* C17 witness: the key of cpu_temperature_celsius with core=0, the name label
\* transmitted last, was derived, and so was a key of a mapping of two labels.
C17_Witness ==
    /\ probe.stage = "done"
    /\ probe.labels1 = << <<sCore, s0>>, <<NameLabel, sCpuTemperatureCelsius>> >>
    /\ Len(probe.labels2) = 2
    /\ Len(probe.key1) = 30

\* coordinators c and d were built for the same target
SameTarget(c, d) ==
    /\ coord[c].exists /\ coord[d].exists
    /\ coord[c].target_config.target_name = coord[d].target_config.target_name

\* C18 as claimed: no two cycles of one target are in flight at the same time.
C18_AsClaimed ==
    \A c, d \in CoordIds :
        (c # d /\ SameTarget(c, d)) => ~(coord[c].polling /\ coord[d].polling)

\* C19: a cycle whose fetch returned a success payload with an empty result
\* list succeeds and leaves an empty map.
C19_EmptyListGivesEmptyMap ==
    ( /\ probe.exchange = Exchange("payload", "success", <<>>)
      /\ ~ConfigReadRaises(coord[1].target_config) )
    => /\ coord[1].outcome = "ok"
       /\ coord[1].last_update_success
       /\ coord[1].has_data
       /\ coord[1].data = EmptyMap

\* C19 witness: the empty list arrived at a coordinator that held a non-empty
\* map, and the cycle succeeded.
C19_Witness ==
    /\ probe.exchange = Exchange("payload", "success", <<>>)
    /\ probe.had_data /\ DOMAIN probe.before # {}
    /\ coord[1].outcome = "ok"

\* value and attributes of an entity
Attributes(s) == [s EXCEPT !.added = FALSE]

\* every entity is available iff the last finished cycle of its coordinator
\* succeeded and the data map holds its key
AvailableIffFreshKey ==
    \A s \in sensors :
        available(coord, s) =
            IF coord[s.coordinator].outcome = "ok"
               /\ s.metric_key \in DOMAIN coord[s.coordinator].data
            THEN "True" ELSE "False"

\* a step leaves value and attributes of every entity that is not available
\* after it as they were
UnavailableKeepsAttributes ==
    \A s \in sensors : \A t \in sensors' :
        ( /\ t.coordinator = s.coordinator
          /\ t.metric_key = s.metric_key
          /\ available(coord', t) # "True" )
        => Attributes(t) = Attributes(s)

DomainName ==
    <<"p", "r", "o", "m", "e", "t", "h", "e", "u", "s", "_",
      "p", "r", "o", "v", "i", "d", "e", "r">>

\* s.replace(".", "_").replace("-", "_")
RECURSIVE Sanitize(_)
Sanitize(s) ==
    IF s = <<>> THEN <<>>
    ELSE <<IF Head(s) \in {".", "-"} THEN "_" ELSE Head(s)>> \o Sanitize(Tail(s))

\* [f"{sanitized key}_{sanitized value}" for key, value in items]
RECURSIVE label_parts(_)
label_parts(items) ==
    IF items = <<>> THEN <<>>
    ELSE <<Sanitize(Head(items)[1]) \o Underscore \o Sanitize(Head(items)[2])>>
         \o label_parts(Tail(items))

\* _attr_unique_id of the entity built for the entry metric_data of the data
\* map; device_id is the target's CONF_DEVICE_ID, when the target has one
unique_id(device_id, metric_data) ==
    LET label_suffix == JoinUnderscore(label_parts(SortedItems(metric_data.labels)))
        base == DomainName \o Underscore \o Get(device_id, metric_data.name)
                \o Underscore \o Sanitize(metric_data.name)
    IN  IF label_suffix # <<>> THEN base \o Underscore \o label_suffix ELSE base

\* ------------------------------------------------------------------------
\* SpecResponse: one response of one target is normalized and an entity is
\* built for every entry of the map, as async_setup_platform builds them.
\* The responses hold series whose label values differ only in ".", "-"
\* and "_", series deriving the same key, and "value" fields of every JSON
\* type.
\* ------------------------------------------------------------------------
sM == <<"m">>
sV == <<"v">>
sOneDotZero == <<"1", ".", "0">>
sOneDashZero == <<"1", "-", "0">>
sOneUnderscoreZero == <<"1", "_", "0">>
sMV10 == <<"m", "_", "v", "_", "1", "_", "0">>
sDev == <<"d", "e", "v">>

\* the series m{v="..."} with a value pair
SeriesM(v, value) == RawSample(<< <<NameLabel, sM>>, <<sV, v>> >>, <<1700, value>>)

\* the series up with a "value" field of the given JSON type
UpOf(kind, value) == RawSampleOf(<< <<NameLabel, sUp>> >>, kind, value)

ResponseSamples ==
    { SeriesM(sOneDotZero, "1"), SeriesM(sOneDashZero, "2"), SeriesM(sOneUnderscoreZero, "3"),
      RawSample(<< <<NameLabel, sMV10>> >>, <<1700, "4">>),
      RawSample(<< <<NameLabel, sMV10>> >>, <<>>),
      UpOf("list", <<1700, "5">>), UpOf("list", <<1700>>), UpOf("list", <<1700, "5", "6">>),
      UpOf("number", <<0>>), UpOf("number", <<5>>),
      UpOf("string", <<"a", "b">>), UpOf("string", <<"a">>),
      UpOf("object", <<"5">>), UpOf("object", <<1700, "5">>) }

ResponseFilters == {NoFilter, FilterConfig(None, None, Some(<<sUp>>))}

InitResponse ==
    /\ yaml = [state |-> "absent", raw |-> YamlConfig(FALSE, None, <<>>),
               config |-> YamlConfig(FALSE, None, <<>>)]
    /\ registry = <<>>
    /\ coord = [c \in CoordIds |-> NoCoordinator]
    /\ made = 0
    /\ sensors = {}
    /\ platform = NoPlatform
    /\ entry = [state |-> "not_loaded", coordinator |-> 0, data |-> Blank,
                options |-> None, had_failure |-> FALSE, via_reload |-> FALSE]
    /\ \E d \in {None, Some(sDev)}, f \in ResponseFilters,
          r \in SeqsUpTo(ResponseSamples, MaxSamples) :
          probe = [stage |-> "input", device_id |-> d, cfg |-> f, raw |-> r,
                   raised |-> FALSE, map |-> EmptyMap, ids |-> EmptyMap]

\* the response goes through the loop of _async_update_data; when the cycle
\* succeeded, the platform builds one entity per entry of the map
PublishResponse ==
    /\ probe.stage = "input"
    /\ LET r == ProcessMetrics(probe.raw, probe.cfg)
       IN  probe' = [probe EXCEPT
                        !.stage = "done",
                        !.raised = r.raised,
                        !.map = r.map,
                        !.ids = [k \in DOMAIN r.map |-> unique_id(probe.device_id, r.map[k])]]
    /\ UNCHANGED <<yaml, registry, coord, made, sensors, platform, entry>>

NextResponse == PublishResponse

SpecResponse == InitResponse /\ [][NextResponse]_vars

\* C21: within one target (one device id), two series with different derived
\* keys always get different persistent entity identifiers
C21_AsClaimed ==
    (probe.stage = "done" /\ IsSet(probe.device_id)) =>
        \A k1 \in DOMAIN probe.ids, k2 \in DOMAIN probe.ids :
            k1 # k2 => probe.ids[k1] # probe.ids[k2]

\* the (key, coordinator) pairs a registry holds
Held(reg) == {<<reg[i].key, reg[i].coordinator>> : i \in LiveIdx(reg)}

\* what the claim allows an unload to do to the registry
UnloadFrame(unload_ok) ==
    IF unload_ok
    THEN Held(registry') = {x \in Held(registry) : x[1] # EntryId}
    ELSE registry' = registry

\* C22: unloading a config entry whose platforms unload removes exactly the
\* coordinator registered under the entry's id and leaves every other
\* coordinator in place; if the platform unload fails, the registry is
\* unchanged.  The unload that opens a reload is an unload as well.
C22_UnloadRemovesOnlyOwnCoordinator ==
    [][\A ok \in BOOLEAN :
          (EntryUnload(ok) \/ \E o \in {None, Some(20)} : EntryReload(ok, o))
              => UnloadFrame(ok)]_vars

\* the entry was set up and unloaded, and a coordinator of the YAML section
\* is still registered
C22_Witness ==
    /\ entry.state = "not_loaded"
    /\ entry.coordinator # 0
    /\ ~DictHas(registry, EntryId)
    /\ DictLen(registry) > 0

\* the "value" field is a two-element [timestamp, value] list
IsPair(item) == item.kind = "list" /\ Len(item.value) = 2

\* the retained samples of the response that was normalized
Kept == RetainedList(probe.raw, probe.cfg)

\* the retained samples with a [timestamp, value] pair that derive the key k
PairsOf(k) == {i \in 1..Len(Kept) : IsPair(Kept[i]) /\ KeyOf(Kept[i]) = k}

\* C23: a retained sample whose value field is missing or is not a
\* two-element [timestamp, value] pair is left out of the map without failing
\* the cycle; every other retained sample contributes an entry under its
\* derived key, carrying its value string unchanged (where several samples
\* derive one key, the entry carries the value string of one of them)
C23_AsClaimed ==
    probe.stage = "done" =>
        /\ ~probe.raised
        /\ \A i \in 1..Len(Kept) : IsPair(Kept[i]) => KeyOf(Kept[i]) \in DOMAIN probe.map
        /\ \A k \in DOMAIN probe.map :
              \E i \in PairsOf(k) : probe.map[k].value = Kept[i].value[2]

\* the retained samples that derive the key k, by position in the response
SamplesOf(k) == {i \in 1..Len(Kept) : KeyOf(Kept[i]) = k}

\* the keys that two retained samples of the response derive
CollidingKeys == {k \in {KeyOf(Kept[i]) : i \in 1..Len(Kept)} : Cardinality(SamplesOf(k)) > 1}

\* the latest position of a non-empty set of positions
Latest(S) == CHOOSE i \in S : \A j \in S : j <= i

\* the entry e carries the name, the labels and the value string of item
Carries(e, item) ==
    /\ Len(item.value) >= 2
    /\ e.name = GetName(item.metric)[2]
    /\ e.labels = StripName(item.metric)
    /\ e.value = item.value[2]

StoredOf(k) == {i \in SamplesOf(k) : HasValuePair(Kept[i])}

====
